---------------------------- MODULE Spec2Model ----------------------------
(***************************************************************************)
(* Email Family PDF Merger v1.0.0: the worker merge_pdfs_worker (Pass 1,   *)
(* Pass 2, QC copy, CSV log, placeholder cleanup) and the tkinter App that *)
(* starts it on a thread and receives its callbacks.                       *)
(*                                                                         *)
(* A filename is a sequence of one-character strings, so that splitext,    *)
(* split("."), lower() and int() are computed, not assumed.                *)
(***************************************************************************)
EXTENDS Integers, Sequences, FiniteSets, TLC

(***************************************************************************)
(* Bounds of the model.                                                    *)
(***************************************************************************)
\* Largest number of entries os.listdir returns.
MaxFiles == 3
\* Largest number of environment failures (I/O errors, vanished files) in a run.
MaxFaults == 1

(***************************************************************************)
(* The directory entries a listing is drawn from.                          *)
(***************************************************************************)
Names ==
  << << "A", ".", "p", "d", "f" >>,                               \* A.pdf
     << "A", ".", "2", ".", "p", "d", "f" >>,                     \* A.2.pdf
     << "A", ".", "1", "0", ".", "p", "d", "f" >>,                \* A.10.pdf
     << "A", ".", "0", "2", ".", "d", "o", "c" >>,                \* A.02.doc
     << "A", ".", "x", ".", "p", "d", "f" >>,                     \* A.x.pdf
     << "A", ".", "1", ".", "2", ".", "P", "D", "F" >>,           \* A.1.2.PDF
     << "B", ".", "d", "o", "c" >>,                               \* B.doc
     << "T", "M", "P", "_", "m", "e", "r", "g", "e", "r", "_",
        "B", ".", "p", "d", "f" >>,                               \* TMP_merger_B.pdf
     << "M", "e", "r", "g", "e", "d", " ", "O", "u", "t", "p",
        "u", "t" >> >>                                            \* Merged Output

NameIds == 1..Len(Names)

\* The entries that are directories (os.path.isdir is true of them).
DirIds == { i \in NameIds : Names[i] = << "M", "e", "r", "g", "e", "d", " ", "O", "u", "t", "p", "u", "t" >> }

Digits == << "0", "1", "2", "3", "4", "5", "6", "7", "8", "9" >>

DigitValue(c) == (CHOOSE i \in 1..10 : Digits[i] = c) - 1

IsDigit(c) == \E i \in 1..10 : Digits[i] = c

\* Unicode code points of the characters that occur, as Python's str comparison uses them.
CodePoint(c) ==
  CASE c = " " -> 32 [] c = "+" -> 43 [] c = "-" -> 45 [] c = "." -> 46
    [] IsDigit(c) -> 48 + DigitValue(c)
    [] c = "A" -> 65 [] c = "B" -> 66 [] c = "D" -> 68 [] c = "F" -> 70
    [] c = "M" -> 77 [] c = "O" -> 79 [] c = "P" -> 80 [] c = "T" -> 84
    [] c = "_" -> 95
    [] c = "c" -> 99 [] c = "d" -> 100 [] c = "e" -> 101 [] c = "f" -> 102
    [] c = "g" -> 103 [] c = "m" -> 109 [] c = "o" -> 111 [] c = "p" -> 112
    [] c = "r" -> 114 [] c = "t" -> 116 [] c = "u" -> 117 [] c = "x" -> 120
    [] c = "y" -> 121

\* str.lower() on one character.
LowerChar(c) ==
  CASE c = "A" -> "a" [] c = "B" -> "b" [] c = "D" -> "d" [] c = "F" -> "f"
    [] c = "M" -> "m" [] c = "O" -> "o" [] c = "P" -> "p" [] c = "T" -> "t"
    [] OTHER -> c

lower(s) == [i \in 1..Len(s) |-> LowerChar(s[i])]

startswith(s, prefix) ==
  /\ Len(s) >= Len(prefix)
  /\ SubSeq(s, 1, Len(prefix)) = prefix

\* Index of the last "." of s, 0 when there is none (str.rfind, 1-based).
LastDot(s) ==
  LET dots == { i \in 1..Len(s) : s[i] = "." }
  IN  IF dots = {} THEN 0 ELSE CHOOSE i \in dots : \A j \in dots : j <= i

\* os.path.splitext on a name without directory separators: the extension
\* starts at the last dot, unless only dots precede that dot.
splitext(s) ==
  LET d == LastDot(s)
  IN  IF d > 0 /\ \E i \in 1..(d - 1) : s[i] # "."
      THEN << SubSeq(s, 1, d - 1), SubSeq(s, d, Len(s)) >>
      ELSE << s, << >> >>

\* str.split("."): the segments between the dots, empty segments kept.
RECURSIVE split(_)
split(s) ==
  LET dots == { i \in 1..Len(s) : s[i] = "." }
  IN  IF dots = {} THEN << s >>
      ELSE LET d == CHOOSE i \in dots : \A j \in dots : i <= j
           IN  << SubSeq(s, 1, d - 1) >> \o split(SubSeq(s, d + 1, Len(s)))

extract_family_key(filename) == split(splitext(filename)[1])[1]

\* str.strip() of blanks, as int() applies it before parsing.
RECURSIVE strip(_)
strip(s) ==
  IF s = << >> THEN s
  ELSE IF Head(s) = " " THEN strip(Tail(s))
  ELSE IF s[Len(s)] = " " THEN strip(SubSeq(s, 1, Len(s) - 1))
  ELSE s

\* The digits-and-underscores body int() accepts: digits, single underscores
\* between digits only.
IntBodyOk(b) ==
  /\ b # << >>
  /\ \A i \in 1..Len(b) : IsDigit(b[i]) \/ b[i] = "_"
  /\ IsDigit(b[1]) /\ IsDigit(b[Len(b)])
  /\ \A i \in 1..(Len(b) - 1) : ~(b[i] = "_" /\ b[i + 1] = "_")

RECURSIVE IntBodyValue(_, _)
IntBodyValue(b, acc) ==
  IF b = << >> THEN acc
  ELSE IF Head(b) = "_" THEN IntBodyValue(Tail(b), acc)
  ELSE IntBodyValue(Tail(b), 10 * acc + DigitValue(Head(b)))

IntSigned(t) == t # << >> /\ Head(t) \in { "+", "-" }

IntBody(t) == IF IntSigned(t) THEN Tail(t) ELSE t

\* Whether int(part) succeeds (no ValueError).
IntParses(part) == IntBodyOk(IntBody(strip(part)))

\* The value of int(part) when it succeeds.
IntValue(part) ==
  LET t == strip(part)
      v == IntBodyValue(IntBody(t), 0)
  IN  IF IntSigned(t) /\ Head(t) = "-" THEN 0 - v ELSE v

\* One token of an order key: the integer int(part), or the string itself.
Token(part) ==
  IF IntParses(part)
  THEN [isInt |-> TRUE, n |-> IntValue(part), s |-> << >>]
  ELSE [isInt |-> FALSE, n |-> 0, s |-> part]

extract_suffix_parts(filename) ==
  LET parts == split(splitext(filename)[1])
  IN  IF Len(parts) <= 1 THEN << >>
      ELSE [i \in 1..(Len(parts) - 1) |-> Token(parts[i + 1])]


(***************************************************************************)
(* Per-entry values of the parser, computed once.                          *)
(***************************************************************************)
FamilyKeyOf == [f \in NameIds |-> extract_family_key(Names[f])]

SuffixPartsOf == [f \in NameIds |-> extract_suffix_parts(Names[f])]

ExtOf == [f \in NameIds |-> splitext(Names[f])[2]]

BaseNameOf == [f \in NameIds |-> splitext(Names[f])[1]]

\* ext.lower() == ".pdf"
IsPdf(f) == lower(ExtOf[f]) = << ".", "p", "d", "f" >>

\* filename_from_dir.lower().startswith("tmp_merger_")
IsTmpMerger(f) ==
  startswith(lower(Names[f]), << "t", "m", "p", "_", "m", "e", "r", "g", "e", "r", "_" >>)

(***************************************************************************)
(* The sort key (len(extract_suffix_parts(fname)), extract_suffix_parts    *)
(* (fname)) and Python's comparison of two such tuples.  A comparison      *)
(* answers "T" or "F", or "E" when it raises TypeError: '<' between an int *)
(* and a str.                                                              *)
(***************************************************************************)
\* str < str: by code point, a proper prefix first.
RECURSIVE StrLT(_, _)
StrLT(a, b) ==
  IF b = << >> THEN FALSE
  ELSE IF a = << >> THEN TRUE
  ELSE IF Head(a) # Head(b) THEN CodePoint(Head(a)) < CodePoint(Head(b))
  ELSE StrLT(Tail(a), Tail(b))

TokenLT(a, b) ==
  IF a.isInt /\ b.isInt THEN (IF a.n < b.n THEN "T" ELSE "F")
  ELSE IF ~a.isInt /\ ~b.isInt THEN (IF StrLT(a.s, b.s) THEN "T" ELSE "F")
  ELSE "E"

\* list < list: the first position where the items differ (by ==, which never
\* raises) decides, with <; without one the shorter list is the smaller.
ListLT(a, b) ==
  LET common == IF Len(a) < Len(b) THEN Len(a) ELSE Len(b)
      diff == { i \in 1..common : a[i] # b[i] }
  IN  IF diff = {} THEN (IF Len(a) < Len(b) THEN "T" ELSE "F")
      ELSE TokenLT(a[CHOOSE i \in diff : \A j \in diff : i <= j],
                   b[CHOOSE i \in diff : \A j \in diff : i <= j])

\* (len, parts) < (len, parts) for the files x and y.
KeyLT(x, y) ==
  LET kx == SuffixPartsOf[x]
      ky == SuffixPartsOf[y]
  IN  IF Len(kx) # Len(ky) THEN (IF Len(kx) < Len(ky) THEN "T" ELSE "F")
      ELSE ListLT(kx, ky)

(***************************************************************************)
(* list.sort as CPython runs it on a short list: count_run finds the       *)
(* leading run (reversed when strictly descending), then binarysort        *)
(* inserts the remaining items.  The result is 0 - 1 in place of a list    *)
(* when a comparison raised.                                               *)
(***************************************************************************)
TypeError == << 0 - 1 >>

\* Last index of the run that starts at 1, given a[2] < a[1] was desc; 0 on TypeError.
RECURSIVE RunEnd(_, _, _)
RunEnd(a, i, desc) ==
  IF i > Len(a) THEN i - 1
  ELSE LET c == KeyLT(a[i], a[i - 1])
       IN  IF c = "E" THEN 0
           ELSE IF (c = "T") = desc THEN RunEnd(a, i + 1, desc)
           ELSE i - 1

Reverse(s) == [i \in 1..Len(s) |-> s[Len(s) + 1 - i]]

\* The insertion point (0-based) of pivot in the sorted prefix a[l+1..r]; -1 on TypeError.
RECURSIVE BinarySearch(_, _, _, _)
BinarySearch(a, pivot, l, r) ==
  LET p == l + ((r - l) \div 2)
      c == KeyLT(pivot, a[p + 1])
  IN  IF c = "E" THEN 0 - 1
      ELSE LET l2 == IF c = "T" THEN l ELSE p + 1
               r2 == IF c = "T" THEN p ELSE r
           IN  IF l2 >= r2 THEN l2 ELSE BinarySearch(a, pivot, l2, r2)

\* binarysort: a[1..start-1] is sorted, insert a[start], a[start+1], ...
RECURSIVE BinarySort(_, _)
BinarySort(a, start) ==
  IF start > Len(a) THEN a
  ELSE LET pos == BinarySearch(a, a[start], 0, start - 1)
       IN  IF pos < 0 THEN TypeError
           ELSE BinarySort(SubSeq(a, 1, pos) \o << a[start] >> \o SubSeq(a, pos + 1, start - 1)
                             \o SubSeq(a, start + 1, Len(a)),
                           start + 1)

\* valid_files_in_family.sort(key=lambda fname: (len(parts), parts))
SortByKey(a) ==
  IF Len(a) < 2 THEN a
  ELSE LET first == KeyLT(a[2], a[1])
       IN  IF first = "E" THEN TypeError
           ELSE LET n == RunEnd(a, 3, first = "T")
                IN  IF n = 0 THEN TypeError
                    ELSE BinarySort((IF first = "T" THEN Reverse(SubSeq(a, 1, n))
                                                    ELSE SubSeq(a, 1, n))
                                      \o SubSeq(a, n + 1, Len(a)),
                                    n + 1)


(***************************************************************************)
(* State of one run of merge_pdfs_worker.                                  *)
(***************************************************************************)
VARIABLES
  pc,                                   \* the worker's position
  dirEntries,                           \* what os.listdir(folder_path) yields
  all_files_in_folder,
  scan_pos,                             \* Pass 1: position in all_files_in_folder
  families,                             \* dict, in insertion order: <<[key, members]>>
  file_path_map,                        \* the filenames that have a resolved path
  placeholder_files_to_delete,
  family_had_native_placeholder,        \* the family keys mapped to True
  max_files_in_family_count,
  largest_family_merged_pdf_src_path,
  first_family_with_native_src_path,
  processed_families_count,
  family_pos,                           \* Pass 2: position in families.items()
  sorted_filenames_for_merge,
  member_pos,                           \* Pass 2: position in sorted_filenames_for_merge
  final_merged_pdf,                     \* the members whose pages were appended
  files_successfully_added_to_merger,
  member_outcomes,                      \* what opening each member met, in loop order
  all_merged_members,                   \* every member whose pages were appended to a
                                        \* final_merged_pdf during the run, in order
  family_log_start,                     \* len(local_log_entries) when the member loop began
  local_log_entries,
  progress_calls,                       \* progress_callback(processed, total), in order
  completion_calls,                     \* completion_callback(success), in order
  merged_pdfs,                          \* files saved into Merged PDFs, in order, each with the
                                        \* family, the members appended and the sorted list
  qc_docs,                              \* files copied into QC Docs, in order
  qc_files_copied_for_log,
  csv_file,                             \* Merge Log.csv: << >> when absent, else its rows
  cleanup_todo,                         \* placeholders the cleanup loop has yet to visit
  cleaned,                              \* placeholders the cleanup loop visited, in order
  tmp_files,                            \* placeholder files present on disk
  faults,                               \* environment failures so far
  tpc,                                  \* App: where the main and the worker thread stand
  tret,                                 \* App: where add_log_message_gui returns to
  log_text_state,                       \* App: the log widget's state option
  log_text_lines,                       \* App: lines the log widget shows
  merge_button_state,
  progress_var,
  progress_label,
  worker_calls,                         \* App: log and progress callbacks made so far
  clicks                                \* App: clicks of the user so far

workerVars ==
  << pc, dirEntries, all_files_in_folder, scan_pos, families, file_path_map,
     placeholder_files_to_delete, family_had_native_placeholder,
     max_files_in_family_count, largest_family_merged_pdf_src_path,
     first_family_with_native_src_path, processed_families_count, family_pos,
     sorted_filenames_for_merge, member_pos, final_merged_pdf,
     files_successfully_added_to_merger, member_outcomes, all_merged_members,
     family_log_start, local_log_entries, progress_calls, completion_calls, merged_pdfs, qc_docs,
     qc_files_copied_for_log, csv_file, cleanup_todo, cleaned, tmp_files, faults >>

uiVars ==
  << tpc, tret, log_text_state, log_text_lines, merge_button_state, progress_var,
     progress_label, worker_calls, clicks >>

\* Python's None, for the two remembered output paths.
None == << >>

\* One log line: its text's kind, the file or family it names, the count it states.
Line(kind, f, n) == [k |-> kind, f |-> f, n |-> n]

\* log_message(message): log_callback_gui(message); local_log_entries.append([message])
log_message(log, line) == Append(log, line)

\* The listings: up to MaxFiles distinct entries, in any order.
Listings ==
  { s \in UNION { [1..n -> NameIds] : n \in 0..MaxFiles } :
      \A a, b \in DOMAIN s : a # b => s[a] # s[b] }

MayFail == faults < MaxFaults

\* App.__init__: the window as built, no merge thread yet.
AppInit ==
  /\ tpc = [t \in { "main", "worker" } |-> IF t = "main" THEN "idle" ELSE "none"]
  /\ tret = [t \in { "main", "worker" } |-> "idle"]
  /\ log_text_state = "disabled"
  /\ log_text_lines = 1
  /\ merge_button_state = "normal"
  /\ progress_var = 0
  /\ progress_label = "Select a folder and click 'Merge PDFs'"
  /\ worker_calls = 0
  /\ clicks = 0

\* merge_pdfs_worker as it is entered.
WorkerInit ==
  /\ pc = "makedirs"
  /\ all_files_in_folder = << >>
  /\ scan_pos = 1
  /\ families = << >>
  /\ file_path_map = {}
  /\ placeholder_files_to_delete = {}
  /\ family_had_native_placeholder = {}
  /\ max_files_in_family_count = 0
  /\ largest_family_merged_pdf_src_path = None
  /\ first_family_with_native_src_path = None
  /\ processed_families_count = 0
  /\ family_pos = 1
  /\ sorted_filenames_for_merge = << >>
  /\ member_pos = 1
  /\ final_merged_pdf = << >>
  /\ files_successfully_added_to_merger = 0
  /\ member_outcomes = << >>
  /\ all_merged_members = << >>
  /\ family_log_start = 0
  /\ local_log_entries = << >>
  /\ progress_calls = << >>
  /\ completion_calls = << >>
  /\ merged_pdfs = << >>
  /\ qc_docs = << >>
  /\ qc_files_copied_for_log = {}
  /\ csv_file = << >>
  /\ cleanup_todo = {}
  /\ cleaned = << >>
  /\ tmp_files = {}
  /\ faults = 0

Init ==
  /\ dirEntries \in Listings
  /\ WorkerInit
  /\ AppInit

(***************************************************************************)
(* Output directories and the listing: the two fatal failures.             *)
(***************************************************************************)
MakeDirs ==
  /\ pc = "makedirs"
  /\ UNCHANGED << uiVars, all_merged_members >>
  /\ \/ /\ local_log_entries' = log_message(local_log_entries, Line("Output folders created/ensured", 0, 0))
        /\ pc' = "listdir"
        /\ UNCHANGED << completion_calls, faults >>
     \/ /\ MayFail
        /\ faults' = faults + 1
        /\ local_log_entries' = log_message(local_log_entries, Line("CRITICAL ERROR: Could not create output directories", 0, 0))
        /\ completion_calls' = Append(completion_calls, FALSE)
        /\ pc' = "done"
  /\ UNCHANGED << dirEntries, all_files_in_folder, scan_pos, families, file_path_map,
                  placeholder_files_to_delete, family_had_native_placeholder,
                  max_files_in_family_count, largest_family_merged_pdf_src_path,
                  first_family_with_native_src_path, processed_families_count, family_pos,
                  sorted_filenames_for_merge, member_pos, final_merged_pdf,
                  files_successfully_added_to_merger, member_outcomes, family_log_start,
                  progress_calls, merged_pdfs, qc_docs,
                  qc_files_copied_for_log, csv_file, cleanup_todo, cleaned, tmp_files >>

ListDir ==
  /\ pc = "listdir"
  /\ UNCHANGED << uiVars, all_merged_members >>
  /\ \/ /\ all_files_in_folder' = dirEntries
        /\ local_log_entries' = log_message(local_log_entries, Line("Starting Pass 1", 0, 0))
        /\ pc' = "pass1"
        /\ UNCHANGED << completion_calls, faults >>
     \/ /\ MayFail
        /\ faults' = faults + 1
        /\ local_log_entries' = log_message(local_log_entries, Line("ERROR: Could not read source directory", 0, 0))
        /\ completion_calls' = Append(completion_calls, FALSE)
        /\ pc' = "done"
        /\ UNCHANGED all_files_in_folder
  /\ UNCHANGED << dirEntries, scan_pos, families, file_path_map,
                  placeholder_files_to_delete, family_had_native_placeholder,
                  max_files_in_family_count, largest_family_merged_pdf_src_path,
                  first_family_with_native_src_path, processed_families_count, family_pos,
                  sorted_filenames_for_merge, member_pos, final_merged_pdf,
                  files_successfully_added_to_merger, member_outcomes, family_log_start,
                  progress_calls, merged_pdfs, qc_docs,
                  qc_files_copied_for_log, csv_file, cleanup_todo, cleaned, tmp_files >>

(***************************************************************************)
(* Pass 1: one iteration of the loop over all_files_in_folder.             *)
(***************************************************************************)
\* Position of family_key in the dict, 0 when it is no key of it.
FamilyIndex(fams, key) ==
  IF \E j \in 1..Len(fams) : fams[j].key = key
  THEN CHOOSE j \in 1..Len(fams) : fams[j].key = key
  ELSE 0

\* families.setdefault(family_key, []).append(filename_from_dir)
SetDefaultAppend(fams, key, f) ==
  LET j == FamilyIndex(fams, key)
  IN  IF j = 0 THEN Append(fams, [key |-> key, members |-> << f >>])
      ELSE [fams EXCEPT ![j].members = Append(@, f)]

\* list.remove(x): drops the first occurrence of x.
ListRemove(s, x) ==
  LET at == CHOOSE j \in 1..Len(s) : s[j] = x /\ \A h \in 1..(j - 1) : s[h] # x
  IN  SubSeq(s, 1, at - 1) \o SubSeq(s, at + 1, Len(s))

\* A bug: the item whose placeholder failed stays in its family's member list.
KeepMember(fams, key, f) == fams

\* if family_key in families and filename in families[family_key]: ...remove(filename)
RemoveMember(fams, key, f) ==
  LET j == FamilyIndex(fams, key)
  IN  IF j # 0 /\ \E h \in 1..Len(fams[j].members) : fams[j].members[h] = f
      THEN [fams EXCEPT ![j].members = ListRemove(@, f)]
      ELSE fams

Pass1Item ==
  /\ pc = "pass1"
  /\ UNCHANGED << uiVars, all_merged_members >>
  /\ scan_pos <= Len(all_files_in_folder)
  /\ scan_pos' = scan_pos + 1
  /\ LET f == all_files_in_folder[scan_pos]
         key == FamilyKeyOf[f]
         joined == SetDefaultAppend(families, key, f)
     IN  \/ /\ f \in DirIds \/ IsTmpMerger(f)
            /\ UNCHANGED << families, file_path_map, placeholder_files_to_delete,
                            family_had_native_placeholder, local_log_entries, tmp_files, faults >>
         \/ /\ ~(f \in DirIds \/ IsTmpMerger(f))
            /\ IsPdf(f)
            /\ families' = joined
            /\ file_path_map' = file_path_map \cup { f }
            /\ UNCHANGED << placeholder_files_to_delete, family_had_native_placeholder,
                            local_log_entries, tmp_files, faults >>
         \/ /\ ~(f \in DirIds \/ IsTmpMerger(f))
            /\ ~IsPdf(f)
            /\ families' = joined
            /\ local_log_entries' = log_message(local_log_entries, Line("Creating placeholder for native file", f, 0))
            /\ file_path_map' = file_path_map \cup { f }
            /\ placeholder_files_to_delete' = placeholder_files_to_delete \cup { f }
            /\ family_had_native_placeholder' = family_had_native_placeholder \cup { key }
            /\ tmp_files' = tmp_files \cup { f }
            /\ UNCHANGED faults
         \/ /\ ~(f \in DirIds \/ IsTmpMerger(f))
            /\ ~IsPdf(f)
            /\ MayFail
            /\ faults' = faults + 1
            /\ local_log_entries' =
                 log_message(log_message(local_log_entries, Line("Creating placeholder for native file", f, 0)),
                             Line("ERROR: Failed to create placeholder", f, 0))
            /\ families' = RemoveMember(joined, key, f)
            /\ UNCHANGED << file_path_map, placeholder_files_to_delete,
                            family_had_native_placeholder, tmp_files >>
  /\ UNCHANGED << pc, dirEntries, all_files_in_folder,
                  max_files_in_family_count, largest_family_merged_pdf_src_path,
                  first_family_with_native_src_path, processed_families_count, family_pos,
                  sorted_filenames_for_merge, member_pos, final_merged_pdf,
                  files_successfully_added_to_merger, member_outcomes, family_log_start,
                  progress_calls, completion_calls, merged_pdfs, qc_docs,
                  qc_files_copied_for_log, csv_file, cleanup_todo, cleaned >>

Pass1Done ==
  /\ pc = "pass1"
  /\ UNCHANGED << uiVars, all_merged_members >>
  /\ scan_pos > Len(all_files_in_folder)
  /\ local_log_entries' =
       log_message(log_message(local_log_entries, Line("Pass 1 completed", 0, 0)),
                   Line("Starting Pass 2", 0, 0))
  /\ processed_families_count' = 0
  /\ family_pos' = 1
  /\ pc' = "pass2"
  /\ UNCHANGED << dirEntries, all_files_in_folder, scan_pos, families, file_path_map,
                  placeholder_files_to_delete, family_had_native_placeholder,
                  max_files_in_family_count, largest_family_merged_pdf_src_path,
                  first_family_with_native_src_path,
                  sorted_filenames_for_merge, member_pos, final_merged_pdf,
                  files_successfully_added_to_merger, member_outcomes, family_log_start,
                  progress_calls, completion_calls, merged_pdfs, qc_docs,
                  qc_files_copied_for_log, csv_file, cleanup_todo, cleaned, tmp_files, faults >>


(***************************************************************************)
(* Pass 2: one family at a time, one member at a time.                     *)
(***************************************************************************)
\* [fname for fname in original_filenames_in_family if fname in file_path_map]
valid_files_in_family(members, paths) == SelectSeq(members, LAMBDA f : f \in paths)

\* Start of one iteration over families.items(): filter, sort, log.  A TypeError
\* raised by the sort is caught nowhere: it ends the worker where it stands.
StartFamily ==
  /\ pc = "pass2"
  /\ UNCHANGED << uiVars, all_merged_members >>
  /\ family_pos <= Len(families)
  /\ LET valid == valid_files_in_family(families[family_pos].members, file_path_map)
         sorted == SortByKey(valid)
     IN  \/ /\ valid = << >>
            /\ local_log_entries' = log_message(local_log_entries, Line("No valid files to merge for family", family_pos, 0))
            /\ processed_families_count' = processed_families_count + 1
            /\ progress_calls' = Append(progress_calls, << processed_families_count + 1, Len(families) >>)
            /\ family_pos' = family_pos + 1
            /\ UNCHANGED << pc, sorted_filenames_for_merge, member_pos, final_merged_pdf,
                            files_successfully_added_to_merger, member_outcomes, family_log_start >>
         \/ /\ valid # << >>
            /\ sorted = TypeError
            /\ pc' = "crashed"
            /\ UNCHANGED << local_log_entries, processed_families_count, progress_calls, family_pos,
                            sorted_filenames_for_merge, member_pos, final_merged_pdf,
                            files_successfully_added_to_merger, member_outcomes, family_log_start >>
         \/ /\ valid # << >>
            /\ sorted # TypeError
            /\ sorted_filenames_for_merge' = sorted
            /\ final_merged_pdf' = << >>
            /\ files_successfully_added_to_merger' = 0
            /\ member_outcomes' = << >>
            /\ local_log_entries' = log_message(local_log_entries, Line("Processing family", family_pos, 0))
            /\ family_log_start' = Len(local_log_entries) + 1
            /\ member_pos' = 1
            /\ pc' = "member"
            /\ UNCHANGED << processed_families_count, progress_calls, family_pos >>
  /\ UNCHANGED << dirEntries, all_files_in_folder, scan_pos, families, file_path_map,
                  placeholder_files_to_delete, family_had_native_placeholder,
                  max_files_in_family_count, largest_family_merged_pdf_src_path,
                  first_family_with_native_src_path,
                  completion_calls, merged_pdfs, qc_docs,
                  qc_files_copied_for_log, csv_file, cleanup_todo, cleaned, tmp_files, faults >>

\* What opening a member can meet: its pages are appended ("ok"), its path does not
\* exist, it has no pages, pikepdf raises PdfError, or anything else is raised.
Outcomes == { "ok", "missing", "nopages", "pdferror", "error" }

\* The line logged for a member that is skipped.
SkipLine(outcome, f) ==
  CASE outcome = "missing" -> Line("WARNING: File path not found or file does not exist. Skipping", f, 0)
    [] outcome = "nopages" -> Line("WARNING: File is a PDF with no pages. Skipping", f, 0)
    [] outcome = "pdferror" -> Line("ERROR: pikepdf could not read/process. Skipping this file", f, 0)
    [] outcome = "error" -> Line("ERROR: Could not append. Skipping this file", f, 0)

\* final_merged_pdf.pages.extend(source_pdf.pages), reached only by a member that
\* opened and has pages.
PagesAfter(pdf, f, outcome) == IF outcome = "ok" THEN Append(pdf, f) ELSE pdf

\* A bug: the member is counted as soon as it opened, before its pages are looked at.
CountAfterOpen(count, outcome) == IF outcome \in { "ok", "nopages" } THEN count + 1 ELSE count

\* files_successfully_added_to_merger += 1, after the with block ended normally.
CountAfter(count, outcome) == IF outcome = "ok" THEN count + 1 ELSE count

\* One iteration of the loop over sorted_filenames_for_merge.
AddMember ==
  /\ pc = "member"
  /\ UNCHANGED uiVars
  /\ member_pos <= Len(sorted_filenames_for_merge)
  /\ LET f == sorted_filenames_for_merge[member_pos]
     IN  \E outcome \in Outcomes :
           /\ outcome # "ok" => MayFail
           /\ faults' = IF outcome = "ok" THEN faults ELSE faults + 1
           /\ final_merged_pdf' = PagesAfter(final_merged_pdf, f, outcome)
           /\ files_successfully_added_to_merger' = CountAfter(files_successfully_added_to_merger, outcome)
           /\ local_log_entries' =
                IF outcome = "ok" THEN local_log_entries
                ELSE log_message(local_log_entries, SkipLine(outcome, f))
           /\ member_outcomes' = Append(member_outcomes, outcome)
           /\ all_merged_members' = PagesAfter(all_merged_members, f, outcome)
           /\ tmp_files' = IF outcome = "missing" THEN tmp_files \ { f } ELSE tmp_files
  /\ member_pos' = member_pos + 1
  /\ UNCHANGED << pc, dirEntries, all_files_in_folder, scan_pos, families, file_path_map,
                  placeholder_files_to_delete, family_had_native_placeholder,
                  max_files_in_family_count, largest_family_merged_pdf_src_path,
                  first_family_with_native_src_path, processed_families_count, family_pos,
                  sorted_filenames_for_merge, family_log_start,
                  progress_calls, completion_calls, merged_pdfs, qc_docs,
                  qc_files_copied_for_log, csv_file, cleanup_todo, cleaned >>

PdfExt == << ".", "p", "d", "f" >>

\* A bug: the output is named after the last member of the sorted list.
OutputFilenameOfLast(sorted) == BaseNameOf[sorted[Len(sorted)]] \o PdfExt

\* final_output_filename: the base name of sorted_filenames_for_merge[0], plus ".pdf".
final_output_filename(sorted) == BaseNameOf[sorted[1]] \o PdfExt

\* A bug: a family that ties with the best count replaces it.
IsLargestOrTies(count, best) == count >= best

\* if files_successfully_added_to_merger > max_files_in_family_count
IsNewLargest(count, best) == count > best

\* A bug: every native-containing family replaces the remembered one.
RemembersEveryNative(native, first) == native

\* if current_family_contained_native and first_family_with_native_src_path is None
RemembersFirstNative(native, first) == native /\ first = None

\* After the member loop: save, log, update the two remembered paths, report progress.
FinishFamily ==
  /\ pc = "member"
  /\ UNCHANGED << uiVars, all_merged_members >>
  /\ member_pos > Len(sorted_filenames_for_merge)
  /\ LET count == files_successfully_added_to_merger
         name == final_output_filename(sorted_filenames_for_merge)
         current_family_contained_native == families[family_pos].key \in family_had_native_placeholder
     IN  \/ /\ count > 0
            /\ merged_pdfs' = Append(merged_pdfs, [fam |-> family_pos, name |-> name, members |-> final_merged_pdf,
                                                 sorted |-> sorted_filenames_for_merge])
            /\ local_log_entries' = log_message(local_log_entries, Line("Successfully merged file(s) into", family_pos, count))
            /\ IF IsNewLargest(count, max_files_in_family_count)
               THEN /\ max_files_in_family_count' = count
                    /\ largest_family_merged_pdf_src_path' = name
               ELSE UNCHANGED << max_files_in_family_count, largest_family_merged_pdf_src_path >>
            /\ IF RemembersFirstNative(current_family_contained_native, first_family_with_native_src_path)
               THEN first_family_with_native_src_path' = name
               ELSE UNCHANGED first_family_with_native_src_path
            /\ UNCHANGED faults
         \/ /\ count > 0
            /\ MayFail
            /\ faults' = faults + 1
            /\ local_log_entries' = log_message(local_log_entries, Line("ERROR: Could not write merged PDF", family_pos, 0))
            /\ UNCHANGED << merged_pdfs, max_files_in_family_count,
                            largest_family_merged_pdf_src_path, first_family_with_native_src_path >>
         \/ /\ count = 0
            /\ local_log_entries' = log_message(local_log_entries, Line("No files were successfully added. No output generated", family_pos, 0))
            /\ UNCHANGED << merged_pdfs, max_files_in_family_count,
                            largest_family_merged_pdf_src_path, first_family_with_native_src_path, faults >>
  /\ processed_families_count' = processed_families_count + 1
  /\ progress_calls' = Append(progress_calls, << processed_families_count + 1, Len(families) >>)
  /\ family_pos' = family_pos + 1
  /\ pc' = "pass2"
  /\ UNCHANGED << dirEntries, all_files_in_folder, scan_pos, families, file_path_map,
                  placeholder_files_to_delete, family_had_native_placeholder,
                  sorted_filenames_for_merge, member_pos, final_merged_pdf,
                  files_successfully_added_to_merger, member_outcomes, family_log_start,
                  completion_calls, qc_docs,
                  qc_files_copied_for_log, csv_file, cleanup_todo, cleaned, tmp_files >>

Pass2Done ==
  /\ pc = "pass2"
  /\ UNCHANGED << uiVars, all_merged_members >>
  /\ family_pos > Len(families)
  /\ local_log_entries' =
       log_message(log_message(local_log_entries, Line("Pass 2 completed", 0, 0)),
                   Line("Processing QC documents", 0, 0))
  /\ qc_files_copied_for_log' = {}
  /\ pc' = "qc_largest"
  /\ UNCHANGED << dirEntries, all_files_in_folder, scan_pos, families, file_path_map,
                  placeholder_files_to_delete, family_had_native_placeholder,
                  max_files_in_family_count, largest_family_merged_pdf_src_path,
                  first_family_with_native_src_path, processed_families_count, family_pos,
                  sorted_filenames_for_merge, member_pos, final_merged_pdf,
                  files_successfully_added_to_merger, member_outcomes, family_log_start,
                  progress_calls, completion_calls, merged_pdfs, qc_docs,
                  csv_file, cleanup_todo, cleaned, tmp_files, faults >>


(***************************************************************************)
(* QC Docs: the largest family's output, then the first native one's.      *)
(***************************************************************************)
QCLargest ==
  /\ pc = "qc_largest"
  /\ UNCHANGED << uiVars, all_merged_members >>
  /\ LET src == largest_family_merged_pdf_src_path
     IN  \/ /\ src # None
            /\ qc_docs' = Append(qc_docs, src)
            /\ local_log_entries' = log_message(local_log_entries, Line("Copied largest family PDF to QC Docs", 0, 0))
            /\ qc_files_copied_for_log' = qc_files_copied_for_log \cup { src }
            /\ UNCHANGED faults
         \/ /\ src # None
            /\ MayFail
            /\ faults' = faults + 1
            /\ local_log_entries' = log_message(local_log_entries, Line("ERROR copying largest family PDF to QC Docs", 0, 0))
            /\ UNCHANGED << qc_docs, qc_files_copied_for_log >>
         \/ /\ src # None
            /\ MayFail
            /\ faults' = faults + 1
            /\ UNCHANGED << qc_docs, qc_files_copied_for_log, local_log_entries >>
         \/ /\ src = None
            /\ UNCHANGED << qc_docs, qc_files_copied_for_log, local_log_entries, faults >>
  /\ pc' = "qc_native"
  /\ UNCHANGED << dirEntries, all_files_in_folder, scan_pos, families, file_path_map,
                  placeholder_files_to_delete, family_had_native_placeholder,
                  max_files_in_family_count, largest_family_merged_pdf_src_path,
                  first_family_with_native_src_path, processed_families_count, family_pos,
                  sorted_filenames_for_merge, member_pos, final_merged_pdf,
                  files_successfully_added_to_merger, member_outcomes, family_log_start,
                  progress_calls, completion_calls, merged_pdfs,
                  csv_file, cleanup_todo, cleaned, tmp_files >>

QCNative ==
  /\ pc = "qc_native"
  /\ UNCHANGED << uiVars, all_merged_members >>
  /\ LET src == first_family_with_native_src_path
         largest == largest_family_merged_pdf_src_path
     IN  \/ /\ src # None
            /\ src # largest
            /\ qc_docs' = Append(qc_docs, src)
            /\ local_log_entries' = log_message(local_log_entries, Line("Copied first PDF with native placeholder to QC Docs", 0, 0))
            /\ qc_files_copied_for_log' = qc_files_copied_for_log \cup { src }
            /\ UNCHANGED faults
         \/ /\ src # None
            /\ src # largest
            /\ MayFail
            /\ faults' = faults + 1
            /\ local_log_entries' = log_message(local_log_entries, Line("ERROR copying PDF with native to QC Docs", 0, 0))
            /\ UNCHANGED << qc_docs, qc_files_copied_for_log >>
         \/ /\ src # None
            /\ src = largest
            /\ src \notin qc_files_copied_for_log
            /\ local_log_entries' = log_message(local_log_entries, Line("Largest family PDF also contained a native; already copied for QC", 0, 0))
            /\ UNCHANGED << qc_docs, qc_files_copied_for_log, faults >>
         \/ /\ src # None
            /\ src = largest
            /\ src \in qc_files_copied_for_log
            /\ UNCHANGED << qc_docs, qc_files_copied_for_log, local_log_entries, faults >>
         \/ /\ src # None
            /\ MayFail
            /\ faults' = faults + 1
            /\ UNCHANGED << qc_docs, qc_files_copied_for_log, local_log_entries >>
         \/ /\ src = None
            /\ family_had_native_placeholder = {}
            /\ local_log_entries' = log_message(local_log_entries, Line("No families contained native placeholders", 0, 0))
            /\ UNCHANGED << qc_docs, qc_files_copied_for_log, faults >>
         \/ /\ src = None
            /\ family_had_native_placeholder # {}
            /\ UNCHANGED << qc_docs, qc_files_copied_for_log, local_log_entries, faults >>
  /\ pc' = "csv"
  /\ UNCHANGED << dirEntries, all_files_in_folder, scan_pos, families, file_path_map,
                  placeholder_files_to_delete, family_had_native_placeholder,
                  max_files_in_family_count, largest_family_merged_pdf_src_path,
                  first_family_with_native_src_path, processed_families_count, family_pos,
                  sorted_filenames_for_merge, member_pos, final_merged_pdf,
                  files_successfully_added_to_merger, member_outcomes, family_log_start,
                  progress_calls, completion_calls, merged_pdfs,
                  csv_file, cleanup_todo, cleaned, tmp_files >>

(***************************************************************************)
(* Merge Log.csv, then the cleanup of the placeholders.                    *)
(***************************************************************************)
\* csv_writer.writerow(['Message']); csv_writer.writerows(local_log_entries)
CsvRows(log) == << Line("Message", 0, 0) >> \o log

WriteCsv ==
  /\ pc = "csv"
  /\ UNCHANGED << uiVars, all_merged_members >>
  /\ \/ /\ csv_file' = CsvRows(local_log_entries)
        /\ local_log_entries' =
             log_message(log_message(local_log_entries, Line("Merge log saved to", 0, 0)),
                         Line("Cleaning up temporary files", 0, 0))
        /\ UNCHANGED faults
     \/ /\ MayFail
        /\ faults' = faults + 1
        /\ local_log_entries' =
             log_message(log_message(local_log_entries, Line("ERROR: Could not write CSV log file", 0, 0)),
                         Line("Cleaning up temporary files", 0, 0))
        /\ UNCHANGED csv_file
  /\ cleanup_todo' = placeholder_files_to_delete
  /\ pc' = "cleanup"
  /\ UNCHANGED << dirEntries, all_files_in_folder, scan_pos, families, file_path_map,
                  placeholder_files_to_delete, family_had_native_placeholder,
                  max_files_in_family_count, largest_family_merged_pdf_src_path,
                  first_family_with_native_src_path, processed_families_count, family_pos,
                  sorted_filenames_for_merge, member_pos, final_merged_pdf,
                  files_successfully_added_to_merger, member_outcomes, family_log_start,
                  progress_calls, completion_calls, merged_pdfs, qc_docs,
                  qc_files_copied_for_log, cleaned, tmp_files >>

\* One iteration of the loop over placeholder_files_to_delete (a set: any order).
CleanupItem ==
  /\ pc = "cleanup"
  /\ UNCHANGED << uiVars, all_merged_members >>
  /\ \E temp_path \in cleanup_todo :
       /\ cleanup_todo' = cleanup_todo \ { temp_path }
       /\ cleaned' = Append(cleaned, temp_path)
       /\ \/ /\ temp_path \in tmp_files
             /\ tmp_files' = tmp_files \ { temp_path }
             /\ UNCHANGED << local_log_entries, faults >>
          \/ /\ temp_path \in tmp_files
             /\ MayFail
             /\ faults' = faults + 1
             /\ local_log_entries' = log_message(local_log_entries, Line("WARNING: Could not delete temporary placeholder", temp_path, 0))
             /\ UNCHANGED tmp_files
          \/ /\ temp_path \notin tmp_files
             /\ UNCHANGED << tmp_files, local_log_entries, faults >>
  /\ UNCHANGED << pc, dirEntries, all_files_in_folder, scan_pos, families, file_path_map,
                  placeholder_files_to_delete, family_had_native_placeholder,
                  max_files_in_family_count, largest_family_merged_pdf_src_path,
                  first_family_with_native_src_path, processed_families_count, family_pos,
                  sorted_filenames_for_merge, member_pos, final_merged_pdf,
                  files_successfully_added_to_merger, member_outcomes, family_log_start,
                  progress_calls, completion_calls, merged_pdfs, qc_docs,
                  qc_files_copied_for_log, csv_file >>

CleanupDone ==
  /\ pc = "cleanup"
  /\ UNCHANGED << uiVars, all_merged_members >>
  /\ cleanup_todo = {}
  /\ local_log_entries' = log_message(local_log_entries, Line("Temporary file cleanup completed", 0, 0))
  /\ completion_calls' = Append(completion_calls, TRUE)
  /\ pc' = "done"
  /\ UNCHANGED << dirEntries, all_files_in_folder, scan_pos, families, file_path_map,
                  placeholder_files_to_delete, family_had_native_placeholder,
                  max_files_in_family_count, largest_family_merged_pdf_src_path,
                  first_family_with_native_src_path, processed_families_count, family_pos,
                  sorted_filenames_for_merge, member_pos, final_merged_pdf,
                  files_successfully_added_to_merger, member_outcomes, family_log_start,
                  progress_calls, merged_pdfs, qc_docs,
                  qc_files_copied_for_log, csv_file, cleanup_todo, cleaned, tmp_files, faults >>

vars == << workerVars, uiVars >>

Next ==
  \/ MakeDirs
  \/ ListDir
  \/ Pass1Item
  \/ Pass1Done
  \/ StartFamily
  \/ AddMember
  \/ FinishFamily
  \/ Pass2Done
  \/ QCLargest
  \/ QCNative
  \/ WriteCsv
  \/ CleanupItem
  \/ CleanupDone

Spec == Init /\ [][Next]_vars


(***************************************************************************)
(* The App: the tkinter main thread, and the thread start_merge_process    *)
(* starts with the App's own bound methods as the worker's callbacks, so   *)
(* that each callback runs on the worker thread.  Here the worker is what  *)
(* the App sees of it: a sequence of log and progress callbacks that ends  *)
(* with one completion callback.  The window exists for as long as the     *)
(* process runs, so winfo_exists() is true wherever it is asked.           *)
(***************************************************************************)
\* Largest number of log and progress callbacks of the worker in a session.
MaxCallbacks == 2
\* Largest number of clicks of the user in a session.
MaxClicks == 2
\* Largest total_count a progress callback reports.
MaxTotal == 2

Threads == { "main", "worker" }

\* add_log_message_gui: self.log_text.config(state=tk.NORMAL)
LogEnable(t) ==
  /\ tpc[t] = "log_enable"
  /\ UNCHANGED workerVars
  /\ log_text_state' = "normal"
  /\ tpc' = [tpc EXCEPT ![t] = "log_insert"]
  /\ UNCHANGED << tret, log_text_lines, merge_button_state, progress_var,
                  progress_label, worker_calls, clicks >>

\* add_log_message_gui: self.log_text.insert(tk.END, ...); self.log_text.see(tk.END).
\* A Text widget whose state is DISABLED ignores the insert.
LogInsert(t) ==
  /\ tpc[t] = "log_insert"
  /\ UNCHANGED workerVars
  /\ log_text_lines' = IF log_text_state = "normal" THEN log_text_lines + 1 ELSE log_text_lines
  /\ tpc' = [tpc EXCEPT ![t] = "log_disable"]
  /\ UNCHANGED << tret, log_text_state, merge_button_state, progress_var,
                  progress_label, worker_calls, clicks >>

\* add_log_message_gui: self.log_text.config(state=tk.DISABLED); update_idletasks(); return
LogDisable(t) ==
  /\ tpc[t] = "log_disable"
  /\ UNCHANGED workerVars
  /\ log_text_state' = "disabled"
  /\ tpc' = [tpc EXCEPT ![t] = tret[t]]
  /\ UNCHANGED << tret, log_text_lines, merge_button_state, progress_var,
                  progress_label, worker_calls, clicks >>

\* start_merge_process up to its call of add_log_message_gui: an invalid folder
\* ends it in an error dialog, a valid one clears the log widget.
ClickMerge ==
  /\ tpc["main"] = "idle"
  /\ UNCHANGED workerVars
  /\ tpc["worker"] \in { "none", "finished" }
  /\ merge_button_state = "normal"
  /\ clicks < MaxClicks
  /\ clicks' = clicks + 1
  /\ \/ /\ tpc' = [tpc EXCEPT !["main"] = "dialog"]
        /\ UNCHANGED << tret, log_text_state, log_text_lines >>
     \/ /\ log_text_state' = "disabled"
        /\ log_text_lines' = 0
        /\ tpc' = [tpc EXCEPT !["main"] = "log_enable"]
        /\ tret' = [tret EXCEPT !["main"] = "start_rest"]
  /\ UNCHANGED << merge_button_state, progress_var, progress_label, worker_calls >>

\* start_merge_process after add_log_message_gui: the button is disabled and the
\* worker thread started.
StartThread ==
  /\ tpc["main"] = "start_rest"
  /\ UNCHANGED workerVars
  /\ merge_button_state' = "disabled"
  /\ progress_var' = 0
  /\ progress_label' = "Initializing merge..."
  /\ tpc' = [tpc EXCEPT !["main"] = "idle", !["worker"] = "running"]
  /\ UNCHANGED << tret, log_text_state, log_text_lines, worker_calls, clicks >>

\* browse_folder: filedialog.askdirectory() opens.
ClickBrowse ==
  /\ tpc["main"] = "idle"
  /\ UNCHANGED workerVars
  /\ clicks < MaxClicks
  /\ clicks' = clicks + 1
  /\ tpc' = [tpc EXCEPT !["main"] = "browse_dialog"]
  /\ UNCHANGED << tret, log_text_state, log_text_lines, merge_button_state,
                  progress_var, progress_label, worker_calls >>

\* browse_folder: the user picks a folder (it is logged) or cancels.
PickFolder ==
  /\ tpc["main"] = "browse_dialog"
  /\ UNCHANGED workerVars
  /\ \/ /\ tpc' = [tpc EXCEPT !["main"] = "log_enable"]
        /\ tret' = [tret EXCEPT !["main"] = "idle"]
     \/ /\ tpc' = [tpc EXCEPT !["main"] = "idle"]
        /\ UNCHANGED tret
  /\ UNCHANGED << log_text_state, log_text_lines, merge_button_state,
                  progress_var, progress_label, worker_calls, clicks >>

\* show_about: messagebox.showinfo opens.
ClickAbout ==
  /\ tpc["main"] = "idle"
  /\ UNCHANGED workerVars
  /\ clicks < MaxClicks
  /\ clicks' = clicks + 1
  /\ tpc' = [tpc EXCEPT !["main"] = "dialog"]
  /\ UNCHANGED << tret, log_text_state, log_text_lines, merge_button_state,
                  progress_var, progress_label, worker_calls >>

\* The user closes a message box opened on the main thread.
DismissDialog ==
  /\ tpc["main"] = "dialog"
  /\ UNCHANGED workerVars
  /\ tpc' = [tpc EXCEPT !["main"] = "idle"]
  /\ UNCHANGED << tret, log_text_state, log_text_lines, merge_button_state,
                  progress_var, progress_label, worker_calls, clicks >>

\* The worker calls log_callback_gui(message), which is App.add_log_message_gui.
WorkerLog ==
  /\ tpc["worker"] = "running"
  /\ UNCHANGED workerVars
  /\ worker_calls < MaxCallbacks
  /\ worker_calls' = worker_calls + 1
  /\ tpc' = [tpc EXCEPT !["worker"] = "log_enable"]
  /\ tret' = [tret EXCEPT !["worker"] = "running"]
  /\ UNCHANGED << log_text_state, log_text_lines, merge_button_state,
                  progress_var, progress_label, clicks >>

\* The worker calls progress_callback(processed, total), which is
\* App.update_progress_display; the worker's total is len(families) >= 1.
WorkerProgress ==
  /\ tpc["worker"] = "running"
  /\ UNCHANGED workerVars
  /\ worker_calls < MaxCallbacks
  /\ worker_calls' = worker_calls + 1
  /\ \E total_count \in 1..MaxTotal : \E processed_count \in 1..total_count :
       IF total_count > 0
       THEN /\ progress_var' = (processed_count * 100) \div total_count
            /\ progress_label' = "Processing family..."
       ELSE /\ progress_var' = 0
            /\ progress_label' = "No families found or all processed."
  /\ UNCHANGED << tpc, tret, log_text_state, log_text_lines, merge_button_state, clicks >>

\* The worker calls completion_callback(success), which is App.on_merge_completion:
\* it logs, then opens a message box.
WorkerCompletion ==
  /\ tpc["worker"] = "running"
  /\ UNCHANGED workerVars
  /\ tpc' = [tpc EXCEPT !["worker"] = "log_enable"]
  /\ tret' = [tret EXCEPT !["worker"] = "completion_dialog"]
  /\ UNCHANGED << log_text_state, log_text_lines, merge_button_state,
                  progress_var, progress_label, worker_calls, clicks >>

\* messagebox.showinfo / showerror returns to on_merge_completion only when the
\* user closes the box.
DismissCompletion ==
  /\ tpc["worker"] = "completion_dialog"
  /\ UNCHANGED workerVars
  /\ tpc' = [tpc EXCEPT !["worker"] = "completion_rest"]
  /\ UNCHANGED << tret, log_text_state, log_text_lines, merge_button_state,
                  progress_var, progress_label, worker_calls, clicks >>

\* on_merge_completion after the message box; the worker thread then ends.
CompletionRest ==
  /\ tpc["worker"] = "completion_rest"
  /\ UNCHANGED workerVars
  /\ progress_label' = "Process finished. Ready for new task."
  /\ merge_button_state' = "normal"
  /\ tpc' = [tpc EXCEPT !["worker"] = "finished"]
  /\ UNCHANGED << tret, log_text_state, log_text_lines, progress_var, worker_calls, clicks >>

InitUI ==
  /\ dirEntries = << >>
  /\ WorkerInit
  /\ AppInit

NextUI ==
  \/ \E t \in Threads : LogEnable(t)
  \/ \E t \in Threads : LogInsert(t)
  \/ \E t \in Threads : LogDisable(t)
  \/ ClickMerge
  \/ StartThread
  \/ ClickBrowse
  \/ PickFolder
  \/ ClickAbout
  \/ DismissDialog
  \/ WorkerLog
  \/ WorkerProgress
  \/ WorkerCompletion
  \/ DismissCompletion
  \/ CompletionRest

\* The App with its two threads interleaved at the statements of the handlers.
SpecUI == InitUI /\ [][NextUI]_vars


(***************************************************************************)
(* Properties.                                                             *)
(***************************************************************************)
Occurrences(seq, x) == Cardinality({ j \in 1..Len(seq) : seq[j] = x })

PositionIn(seq, x) == CHOOSE j \in 1..Len(seq) : seq[j] = x

Logged(kind) == \E j \in 1..Len(local_log_entries) : local_log_entries[j].k = kind

AfterPass2 == pc \in { "qc_largest", "qc_native", "csv", "cleanup", "done" }

RunEnded == pc \in { "done", "crashed" }

\* One token orders before another: numerically for two integers, by code point
\* for two strings; an integer and a string are not ordered.
TokenBefore(a, b) ==
  \/ a.isInt /\ b.isInt /\ a.n < b.n
  \/ ~a.isInt /\ ~b.isInt /\ StrLT(a.s, b.s)

\* x's order key sorts before y's: fewer tokens, or as many and the first
\* differing token orders before.
OrderKeyBefore(x, y) ==
  LET kx == SuffixPartsOf[x]
      ky == SuffixPartsOf[y]
  IN  \/ Len(kx) < Len(ky)
      \/ /\ Len(kx) = Len(ky)
         /\ \E d \in 1..Len(kx) :
              /\ \A j \in 1..(d - 1) : kx[j] = ky[j]
              /\ kx[d] # ky[d]
              /\ TokenBefore(kx[d], ky[d])

\* For each file, the files its order key sorts before, and those with the same key.
SortsBefore == [x \in NameIds |-> { y \in NameIds : OrderKeyBefore(x, y) }]

SameOrderKey == [x \in NameIds |-> { y \in NameIds : SuffixPartsOf[x] = SuffixPartsOf[y] }]

\* C1: in Pass 2 every valid member of the family at hand takes part in the merge
\* order, a member with fewer order-key tokens is merged before one with more,
\* members with equally long keys are merged in element-wise token order (integers
\* numerically), and members with equal keys keep their Pass 1 scan order; for
\* every set of filenames, those that mix integer and string tokens included.
C1_SortOrder ==
  pc \in { "member", "crashed" } =>
    LET valid == valid_files_in_family(families[family_pos].members, file_path_map)
        order == IF pc = "crashed" THEN << >> ELSE sorted_filenames_for_merge
    IN  /\ \A a \in 1..Len(valid) : Occurrences(order, valid[a]) = 1
        /\ \A a, b \in 1..Len(valid) :
             \/ valid[b] \in SortsBefore[valid[a]]
             \/ valid[b] \in SameOrderKey[valid[a]] /\ a < b
             => PositionIn(order, valid[a]) < PositionIn(order, valid[b])

\* The members of sorted[1..n] that opened with pages, in order.
RECURSIVE AppendedOf(_, _, _)
AppendedOf(sorted, outcomes, n) ==
  IF n = 0 THEN << >>
  ELSE IF outcomes[n] = "ok" THEN Append(AppendedOf(sorted, outcomes, n - 1), sorted[n])
  ELSE AppendedOf(sorted, outcomes, n - 1)

\* The lines of the members of sorted[1..n] that were skipped, in order.
RECURSIVE SkipLinesOf(_, _, _)
SkipLinesOf(sorted, outcomes, n) ==
  IF n = 0 THEN << >>
  ELSE IF outcomes[n] # "ok"
       THEN Append(SkipLinesOf(sorted, outcomes, n - 1), SkipLine(outcomes[n], sorted[n]))
  ELSE SkipLinesOf(sorted, outcomes, n - 1)

\* C2: in the member loop of a family the merged document holds exactly the members
\* of the sorted list handled so far that were neither missing, unreadable nor
\* without pages, in sorted order; the log gained exactly one line per skipped
\* member, the count equals the number of members appended, and every logged
\* merged-member count is the number of members in the file that was saved.
C2_SkippedMembersOnly ==
  /\ pc = "member" =>
       LET n == Len(member_outcomes)
       IN  /\ n = member_pos - 1
           /\ final_merged_pdf = AppendedOf(sorted_filenames_for_merge, member_outcomes, n)
           /\ files_successfully_added_to_merger = Len(final_merged_pdf)
           /\ SubSeq(local_log_entries, family_log_start + 1, Len(local_log_entries))
                = SkipLinesOf(sorted_filenames_for_merge, member_outcomes, n)
  /\ \A j \in 1..Len(local_log_entries) :
       local_log_entries[j].k = "Successfully merged file(s) into" =>
         \E r \in 1..Len(merged_pdfs) :
           /\ merged_pdfs[r].fam = local_log_entries[j].f
           /\ local_log_entries[j].n = Len(merged_pdfs[r].members)

\* C2 witness: a family's loop has ended, a member was skipped and the member
\* after it was appended.
C2_Witness ==
  /\ pc = "member"
  /\ member_pos > Len(sorted_filenames_for_merge)
  /\ \E j \in 1..(Len(member_outcomes) - 1) :
       member_outcomes[j] # "ok" /\ member_outcomes[j + 1] = "ok"

\* The run met one of the two fatal failures.
FatalFailure ==
  \/ Logged("CRITICAL ERROR: Could not create output directories")
  \/ Logged("ERROR: Could not read source directory")

\* C3: a run ends with exactly one completion callback: False after a failure to
\* create the output directories or to list the source directory, and True after
\* every family was processed in every other case.
C3_OnlyFatalFailuresAbort ==
  /\ Len(completion_calls) <= 1
  /\ RunEnded =>
       /\ completion_calls = << ~FatalFailure >>
       /\ ~FatalFailure => pc = "done" /\ processed_families_count = Len(families)

\* The member of a family's valid list that no other member is ordered before.
IsOrderFirst(x, valid) ==
  \A b \in 1..Len(valid) :
    /\ x \notin SortsBefore[valid[b]]
    /\ x \in SameOrderKey[valid[b]] => \E a \in 1..b : valid[a] = x

\* C4: every file saved into Merged PDFs holds at least one member and is named
\* after the base name of the first member of its family's sorted list, which is
\* the family's order-first valid member; a family logged as having no member
\* appended has no file.
C4_OutputNamedAfterFirst ==
  /\ \A r \in 1..Len(merged_pdfs) :
       LET res == merged_pdfs[r]
           valid == valid_files_in_family(families[res.fam].members, file_path_map)
       IN  /\ res.members # << >>
           /\ res.name = BaseNameOf[res.sorted[1]] \o << ".", "p", "d", "f" >>
           /\ IsOrderFirst(res.sorted[1], valid)
           /\ \A q \in 1..Len(merged_pdfs) : merged_pdfs[q].fam = res.fam => q = r
  /\ \A j \in 1..Len(local_log_entries) :
       local_log_entries[j].k = "No files were successfully added. No output generated" =>
         \A r \in 1..Len(merged_pdfs) : merged_pdfs[r].fam # local_log_entries[j].f

\* C4 witness: a file was saved for a family of several members whose first
\* sorted member was skipped and is not the first in scan order.
C4_Witness ==
  \E r \in 1..Len(merged_pdfs) :
    /\ Len(merged_pdfs[r].sorted) >= 2
    /\ merged_pdfs[r].members[1] # merged_pdfs[r].sorted[1]
    /\ families[merged_pdfs[r].fam].members[1] # merged_pdfs[r].sorted[1]

\* C5: the remembered largest-family output is unset exactly when no family
\* produced a merge result; otherwise it is the output of the first result, in
\* Pass 2 order, whose member count is the largest of all results.
C5_LargestIsFirstMaximum ==
  /\ largest_family_merged_pdf_src_path = None <=> merged_pdfs = << >>
  /\ merged_pdfs # << >> =>
       \E r \in 1..Len(merged_pdfs) :
         /\ merged_pdfs[r].name = largest_family_merged_pdf_src_path
         /\ Len(merged_pdfs[r].members) = max_files_in_family_count
         /\ \A q \in 1..Len(merged_pdfs) : Len(merged_pdfs[q].members) <= Len(merged_pdfs[r].members)
         /\ \A q \in 1..(r - 1) : Len(merged_pdfs[q].members) < Len(merged_pdfs[r].members)

\* C5 witness: Pass 2 is over and two families produced results with the same,
\* largest count.
C5_Witness ==
  /\ AfterPass2
  /\ Len(merged_pdfs) = 2
  /\ Len(merged_pdfs[1].members) = Len(merged_pdfs[2].members)


\* The families, by position in the dict, whose native-containing flag is set.
NativeFamilies ==
  { j \in 1..Len(families) : families[j].key \in family_had_native_placeholder }

\* The merge results, by position, of native-containing families.
NativeResults ==
  { r \in 1..Len(merged_pdfs) : merged_pdfs[r].fam \in NativeFamilies }

\* A family's flag is set exactly when one of its non-PDF members got a placeholder.
NativeFlagMeansPlaceholder ==
  \A j \in 1..Len(families) :
    j \in NativeFamilies <=>
      \E f \in placeholder_files_to_delete :
        FamilyKeyOf[f] = families[j].key /\ ~IsPdf(f) /\ f \in file_path_map

\* C6 as claimed: after Pass 2 the remembered first-native output is the output of
\* the first family, in scan order, whose native-containing flag is set.
C6_FirstNativeInScanOrder ==
  AfterPass2 =>
    /\ NativeFlagMeansPlaceholder
    /\ NativeFamilies = {} => first_family_with_native_src_path = None
    /\ NativeFamilies # {} =>
         LET first == CHOOSE j \in NativeFamilies : \A h \in NativeFamilies : j <= h
         IN  \E r \in 1..Len(merged_pdfs) :
               /\ merged_pdfs[r].fam = first
               /\ merged_pdfs[r].name = first_family_with_native_src_path

\* C6 as amended: the remembered first-native output is the output of the first
\* family, in scan order, whose native-containing flag is set and whose merged
\* file was saved; it is unset when there is no such family.  Results are only
\* ever added after the ones there are, so once set it is never replaced.
C6_FirstNativeWithOutput ==
  /\ NativeFlagMeansPlaceholder
  /\ first_family_with_native_src_path =
       IF NativeResults = {} THEN None
       ELSE merged_pdfs[CHOOSE r \in NativeResults : \A q \in NativeResults : r <= q].name

\* C6 witness: Pass 2 is over; two native-containing families have saved files,
\* and the one remembered is not the largest family.
C6_Witness ==
  /\ AfterPass2
  /\ first_family_with_native_src_path # None
  /\ first_family_with_native_src_path # largest_family_merged_pdf_src_path
  /\ Cardinality(NativeResults) >= 2

\* C7: when the run has ended, Merge Log.csv holds the header row and then one
\* row for every line that was logged during the run, in the order logged.
C7_CsvHoldsEveryLine ==
  pc = "done" /\ csv_file # << >> => csv_file = CsvRows(local_log_entries)

\* C8: no placeholder is visited twice by the cleanup, none is visited before
\* every family was merged, and however a run ends after Pass 1, every registered
\* placeholder was visited exactly once.
C8_PlaceholdersDeletedOnce ==
  /\ \A t \in placeholder_files_to_delete : Occurrences(cleaned, t) <= 1
  /\ cleaned # << >> => family_pos > Len(families) /\ pc \in { "cleanup", "done" }
  /\ RunEnded /\ Logged("Pass 1 completed") =>
       \A t \in placeholder_files_to_delete : Occurrences(cleaned, t) = 1

\* C9: the worker and the main thread are never both inside a change of the log
\* widget (between its config(state=NORMAL) and its config(state=DISABLED)), and
\* no callback made by the worker waits for the user to close a message box.
C9_NotificationsSafe ==
  /\ ~(tpc["main"] \in { "log_insert", "log_disable" } /\ tpc["worker"] \in { "log_insert", "log_disable" })
  /\ tpc["worker"] # "completion_dialog"

\* C10: after the QC step at most two copies were made; when the first-native
\* output is the largest-family output it was copied at most once and the line
\* saying that the largest family also contained a native was logged; when the
\* two differ each was copied at most once, and once when nothing failed.
C10_QCCopiesOnce ==
  pc \in { "csv", "cleanup", "done" } =>
    LET first == first_family_with_native_src_path
        largest == largest_family_merged_pdf_src_path
    IN  /\ Len(qc_docs) <= 2
        /\ first # None /\ first = largest =>
             /\ Occurrences(qc_docs, first) <= 1
             /\ Logged("Largest family PDF also contained a native; already copied for QC")
        /\ first # None /\ largest # None /\ first # largest =>
             /\ Occurrences(qc_docs, first) <= 1
             /\ Occurrences(qc_docs, largest) <= 1
             /\ faults = 0 => Occurrences(qc_docs, first) = 1 /\ Occurrences(qc_docs, largest) = 1

\* The entries Pass 1 has scanned so far that are items: neither directories nor
\* files with the tmp_merger_ prefix.
NotItems == { f \in NameIds : f \in DirIds \/ IsTmpMerger(f) }

ScannedItems == { all_files_in_folder[j] : j \in 1..(scan_pos - 1) } \ NotItems

\* The leading identifier of a filename: what stands before its first dot.
LeadingIdentifierOf(f) ==
  LET name == Names[f]
      dots == { j \in 1..Len(name) : name[j] = "." }
  IN  IF dots = {} THEN name
      ELSE SubSeq(name, 1, (CHOOSE j \in dots : \A h \in dots : j <= h) - 1)

LeadingIdentifier == [f \in NameIds |-> LeadingIdentifierOf(f)]

\* f is a member of no family.
InNoFamily(f) ==
  \A a \in 1..Len(families) : \A h \in 1..Len(families[a].members) : families[a].members[h] # f

\* f is a member of the family of its leading identifier, once, and of no other.
InItsFamilyOnly(f) ==
  \E a \in 1..Len(families) :
    /\ families[a].key = LeadingIdentifier[f]
    /\ \E h \in 1..Len(families[a].members) :
         /\ families[a].members[h] = f
         /\ \A b \in 1..Len(families) : \A q \in 1..Len(families[b].members) :
              families[b].members[q] = f => b = a /\ q = h

\* f was appended to a merged document at most once during the run.
MergedAtMostOnce(f) ==
  \A a \in 1..Len(all_merged_members) :
    all_merged_members[a] = f =>
      \A b \in 1..Len(all_merged_members) : all_merged_members[b] = f => a = b

\* The line logged when the placeholder of f could not be synthesized.
FailureLine(f) == Line("ERROR: Failed to create placeholder", f, 0)

\* The items whose failure line is in the log.
PlaceholderFailed ==
  { local_log_entries[j].f :
      j \in { h \in 1..Len(local_log_entries) :
                local_log_entries[h].k = "ERROR: Failed to create placeholder" } }

\* The worker stands after an iteration of the Pass 1 loop or of a family's member
\* loop, the only steps that change a member list, a resolved path or a merged
\* document, or an exception has ended it.
AfterItemStep == pc \in { "pass1", "member", "crashed" }

\* C11: after every step of Pass 1 and of the member loops of Pass 2, every item
\* scanned so far whose placeholder synthesis did not fail is a member of exactly
\* one family, the one of its leading identifier, and was appended to a merged
\* document at most once; a non-PDF item whose synthesis failed is in no member
\* list, has no resolved path and no registered placeholder, left its family's
\* native flag to the other members, has exactly one failure line and was never
\* appended to a merged document.  No two families share a key, and nothing but
\* scanned items is a member or is merged.
C11_ItemsInOneFamily ==
  AfterItemStep =>
  LET items == ScannedItems
      failed == PlaceholderFailed
  IN  /\ failed \subseteq items
      /\ \A f \in items :
           IF f \in failed
           THEN /\ ~IsPdf(f)
                /\ InNoFamily(f)
                /\ f \notin file_path_map
                /\ f \notin placeholder_files_to_delete
                /\ FamilyKeyOf[f] \in family_had_native_placeholder =>
                     \E g \in placeholder_files_to_delete : g # f /\ FamilyKeyOf[g] = FamilyKeyOf[f]
                /\ Occurrences(local_log_entries, FailureLine(f)) = 1
                /\ \A a \in 1..Len(all_merged_members) : all_merged_members[a] # f
           ELSE /\ InItsFamilyOnly(f)
                /\ f \in file_path_map
                /\ MergedAtMostOnce(f)
      /\ \A a, b \in 1..Len(families) : families[a].key = families[b].key => a = b
      /\ \A a \in 1..Len(families) : \A b \in 1..Len(families[a].members) :
           families[a].members[b] \in items
      /\ \A a \in 1..Len(all_merged_members) : all_merged_members[a] \in items

\* C11 witness: a family's member loop has ended, the placeholder of a non-PDF
\* item of the family could not be synthesized, and another member of the family
\* was appended to the merged document.
C11_Witness ==
  /\ pc = "member"
  /\ member_pos > Len(sorted_filenames_for_merge)
  /\ \E f \in ScannedItems :
       /\ f \in PlaceholderFailed
       /\ \E a \in 1..Len(all_merged_members) :
            LeadingIdentifier[all_merged_members[a]] = LeadingIdentifier[f]

=============================================================================
